---- MODULE Spec2Model ----
(***************************************************************************)
(* A model of the CHIP-8 interpreter of src/src/cpu.rs and of its terminal *)
(* (framebuffer and keypad) of src/src/terminal.rs.                        *)
(*                                                                         *)
(* Every Rust method is an operator from the object (a record `self`) and  *)
(* its arguments to the object after the call; a method that also returns  *)
(* a value yields [terminal |-> ..., ret |-> ...].  A u64 is the set of    *)
(* the positions (0 = least significant) of its 1 bits; an Option is a     *)
(* sequence of length at most one; a panic sets the field `panicked`.      *)
(***************************************************************************)
EXTENDS Integers, Sequences, FiniteSets, TLC

VARIABLES
    memory,          \* CPU.memory: [u8; 4096]
    stack,           \* CPU.stack: [u16; 16]
    v,               \* CPU.v: [u8; 16]
    i,               \* CPU.i: u16
    dt,              \* CPU.dt: u8
    st,              \* CPU.st: u8
    pc,              \* CPU.pc: u16
    sp,              \* CPU.sp: u8
    pixels,          \* Terminal.pixels: [u64; 32]
    unprocessed,     \* Terminal.unprocessed: Vec<u8>
    exit,            \* Terminal.exit: bool
    stdin,           \* Terminal.stdin: the key events read() would yield now
    panicked,        \* the process has panicked (the run is over)
    overflow_checks, \* the build profile: debug (TRUE) or release (FALSE)
    timer_flag,      \* main's update_timers: the flag of the next tick call
    calls,           \* number of operations performed so far
    arrived,         \* number of key events that have arrived so far
    last,            \* the last operation: its name, arguments and result
    prev,            \* the operation before the last one, when the last one
                     \* repeated it (same name and arguments); else none
    pending,         \* history: <<address, sp before>> of each CALL not yet
                     \* returned from, innermost last
    stored           \* history: <<x, I, V>> at the last Fx55, <<>> when there
                     \* was none or memory has been written since

vars == <<memory, stack, v, i, dt, st, pc, sp, pixels, unprocessed, exit,
          stdin, panicked, overflow_checks, timer_flag, calls, arrived, last,
          prev, pending, stored>>

cpuVars == <<memory, stack, v, i, dt, st, pc, sp, panicked>>
termVars == <<pixels, unprocessed, exit, stdin>>

(***************************************************************************)
(* Program constants.                                                      *)
(***************************************************************************)
MEMORY == 4096

FONT == <<240, 144, 144, 144, 240,
          32, 96, 32, 32, 112,
          240, 16, 240, 128, 240,
          240, 16, 240, 16, 240,
          144, 144, 240, 16, 16,
          240, 128, 240, 16, 240,
          240, 128, 240, 144, 240,
          240, 16, 32, 64, 64,
          240, 144, 240, 144, 240,
          240, 144, 240, 16, 240,
          240, 144, 240, 144, 144,
          224, 144, 224, 144, 224,
          240, 128, 128, 128, 240,
          224, 144, 144, 144, 224,
          240, 128, 240, 128, 240,
          240, 128, 240, 128, 128>>

(***************************************************************************)
(* Machine arithmetic on u8 values.                                        *)
(***************************************************************************)
Pow2(k) == 2 ^ k

Bit(n, k) == (n \div Pow2(k)) % 2

RECURSIVE BitAnd(_, _)
BitAnd(a, b) ==
    IF a = 0 \/ b = 0 THEN 0
    ELSE (a % 2) * (b % 2) + 2 * BitAnd(a \div 2, b \div 2)

RECURSIVE BitOr(_, _)
BitOr(a, b) ==
    IF a = 0 THEN b
    ELSE IF b = 0 THEN a
    ELSE (IF a % 2 = 1 \/ b % 2 = 1 THEN 1 ELSE 0) + 2 * BitOr(a \div 2, b \div 2)

RECURSIVE BitXor(_, _)
BitXor(a, b) ==
    IF a = 0 THEN b
    ELSE IF b = 0 THEN a
    ELSE ((a + b) % 2) + 2 * BitXor(a \div 2, b \div 2)

\* `n as u8`: truncation to the low 8 bits
AsU8(n) == n % 256

\* u8::wrapping_sub
wrapping_sub(a, b) == (a - b) % 256

(***************************************************************************)
(* u64 words as sets of bit positions.                                     *)
(***************************************************************************)
\* `byte as u64`
AsU64(byte) == {b \in 0..7 : Bit(byte, b) = 1}

\* u64::from_be on a little-endian target: the eight bytes are swapped
from_be(w) == {8 * (7 - (b \div 8)) + (b % 8) : b \in w}

\* u64::rotate_right(n): the shift amount is taken modulo 64
rotate_right(w, n) == {(b - n) % 64 : b \in w}

\* | instead of ^
Or64(a, b) == a \cup b

\* ^ and & on u64
Xor64(a, b) == (a \ b) \cup (b \ a)
And64(a, b) == a \cap b

(***************************************************************************)
(* Terminal (src/src/terminal.rs).  A terminal is the record               *)
(* [pixels, unprocessed, exit, stdin]; writes to stdout are not state.     *)
(***************************************************************************)
Rows == 0..31

BlankPixels == [r \in Rows |-> {}]

\* Terminal::new followed by the clear() it calls
NewTerminal(r) ==
    [pixels |-> BlankPixels, unprocessed |-> <<>>, exit |-> FALSE, stdin |-> r]

\* Terminal::clear
clear(t) == [t EXCEPT !.pixels = BlankPixels]

\* BitIterator / render: column x of a line is bit 63 - x of the word
PixelAt(px, row, col) == (63 - col) \in px[row]

\* sprite_line rotating to the left
sprite_line_rotate_left(byte, x) ==
    {(b + x) % 64 : b \in from_be(AsU64(byte))}

\* the word draw_sprite XORs into a line for one sprite byte
sprite_line(byte, x) == rotate_right(from_be(AsU64(byte)), x)

\* the collision test of one line: some bit of the old line is gone
line_overwritten(old, new_line) == And64(old, new_line) # old

\* the body of the for loop of draw_sprite, from the k-th byte on;
\* st is [pixels, row, overwritten]
RECURSIVE draw_loop(_, _, _, _)
draw_loop(s, x, sprite, k) ==
    IF k > Len(sprite) THEN s
    ELSE LET row == IF s.row >= 32 THEN s.row % 32 ELSE s.row
             new_line == Xor64(s.pixels[row], sprite_line(sprite[k], x))
             ow == s.overwritten \/ line_overwritten(s.pixels[row], new_line)
         IN  draw_loop([pixels |-> [s.pixels EXCEPT ![row] = new_line],
                        row |-> row + 1,
                        overwritten |-> ow], x, sprite, k + 1)

\* Terminal::draw_sprite
draw_sprite(t, x, y, sprite) ==
    LET s == draw_loop([pixels |-> t.pixels, row |-> y, overwritten |-> FALSE],
                       x, sprite, 1)
    IN  [terminal |-> [t EXCEPT !.pixels = s.pixels],
         ret |-> IF s.overwritten THEN 1 ELSE 0]

\* Terminal::map_key: Some(code) for the sixteen hex characters, else None
map_key(key) ==
    CASE key = "0" -> <<0>>   [] key = "1" -> <<1>>
      [] key = "2" -> <<2>>   [] key = "3" -> <<3>>
      [] key = "4" -> <<4>>   [] key = "5" -> <<5>>
      [] key = "6" -> <<6>>   [] key = "7" -> <<7>>
      [] key = "8" -> <<8>>   [] key = "9" -> <<9>>
      [] key = "a" -> <<10>>  [] key = "b" -> <<11>>
      [] key = "c" -> <<12>>  [] key = "d" -> <<13>>
      [] key = "e" -> <<14>>  [] key = "f" -> <<15>>
      [] OTHER -> <<>>

\* the test made against Key::Char('c')
is_char_c(key) == key = "c"

\* k == Key::Ctrl('c')
is_ctrl_c(key) == key = "Ctrl-c"

\* first_index finding the last occurrence instead of the first
last_index(q, expected) ==
    IF \E n \in 1..Len(q) : q[n] = expected
    THEN CHOOSE n \in 1..Len(q) :
            /\ q[n] = expected
            /\ \A m \in (n + 1)..Len(q) : q[m] # expected
    ELSE 0

\* the first index of expected in the unprocessed queue, 0 when absent
first_index(q, expected) ==
    IF \E n \in 1..Len(q) : q[n] = expected
    THEN CHOOSE n \in 1..Len(q) :
            /\ q[n] = expected
            /\ \A m \in 1..(n - 1) : q[m] # expected
    ELSE 0

\* queue_on_match without the clear()
queue_on_match_keep(q) == q

\* what check_if_pressed does with the queue on a match read from stdin
queue_on_match(q) == <<>>

\* the while loop of check_if_pressed over the events stdin holds now
RECURSIVE read_loop(_, _)
read_loop(t, expected) ==
    IF t.stdin = <<>> THEN [terminal |-> t, ret |-> FALSE]
    ELSE LET k == Head(t.stdin)
             t1 == [t EXCEPT !.stdin = Tail(t.stdin),
                             !.exit = IF is_ctrl_c(k) THEN TRUE ELSE t.exit]
             key == map_key(k)
         IN  IF key # <<>> /\ key[1] = expected
             THEN [terminal |-> [t1 EXCEPT !.unprocessed = queue_on_match(@)],
                   ret |-> TRUE]
             ELSE IF key # <<>>
             THEN read_loop([t1 EXCEPT !.unprocessed = Append(@, key[1])], expected)
             ELSE read_loop(t1, expected)

\* Terminal::check_if_pressed
check_if_pressed(t, expected) ==
    LET n == first_index(t.unprocessed, expected)
    IN  IF n > 0
        THEN [terminal |-> [t EXCEPT !.unprocessed =
                                SubSeq(@, n + 1, Len(@))],
              ret |-> TRUE]
        ELSE read_loop(t, expected)

\* Terminal::wait_for_key_press
\* wait_for_key_press that yields the head of the unprocessed queue first
wait_for_key_press_queue_first(t) ==
    IF t.unprocessed # <<>>
    THEN [terminal |-> [t EXCEPT !.unprocessed = Tail(t.unprocessed)],
          ret |-> <<Head(t.unprocessed)>>]
    ELSE IF t.stdin # <<>>
    THEN [terminal |-> [t EXCEPT !.stdin = Tail(t.stdin),
                                 !.exit = IF is_ctrl_c(Head(t.stdin))
                                          THEN TRUE ELSE t.exit],
          ret |-> map_key(Head(t.stdin))]
    ELSE [terminal |-> t, ret |-> <<>>]

\* wait_for_key_press that takes an event only when it maps to a key
wait_for_key_press_peek(t) ==
    IF t.stdin # <<>> /\ map_key(Head(t.stdin)) # <<>>
    THEN [terminal |-> [t EXCEPT !.stdin = Tail(t.stdin)],
          ret |-> map_key(Head(t.stdin))]
    ELSE [terminal |-> t, ret |-> <<>>]

wait_for_key_press(t) ==
    IF t.stdin # <<>>
    THEN LET k == Head(t.stdin)
             t1 == [t EXCEPT !.stdin = Tail(t.stdin),
                             !.exit = IF is_ctrl_c(k) THEN TRUE ELSE t.exit]
         IN  [terminal |-> t1, ret |-> map_key(k)]
    ELSE [terminal |-> t, ret |-> <<>>]

(***************************************************************************)
(* CPU (src/src/cpu.rs).  A CPU is the record                              *)
(* [terminal, memory, stack, v, i, dt, st, pc, sp, panicked].              *)
(***************************************************************************)
Addrs == 0..(MEMORY - 1)

\* the failing instruction passed over, the run going on
no_panic(self) == self

\* a panic (index out of bounds, or an overflow in a build that checks it)
Panic(self) == [self EXCEPT !.panicked = TRUE]

\* a + b on u16: panics in a debug build, wraps in a release build
AddOverflows16(a, b) == a + b > 65535

\* fn to_byte
to_byte(a, b) == AsU8(a * 16) + b

\* fn addr
addr(a, b, c) == a * 256 + b * 16 + c

\* CPU::new copying the font to memory[1..] instead of memory[0..]
NewCPU_font_from_one(r) ==
    [terminal |-> NewTerminal(r),
     memory |-> [a \in Addrs |-> IF a > 0 /\ a <= Len(FONT) THEN FONT[a] ELSE 0],
     stack |-> [k \in 0..15 |-> 0],
     v |-> [k \in 0..15 |-> 0],
     i |-> 0, dt |-> 0, st |-> 0, pc |-> 512, sp |-> 0,
     panicked |-> FALSE]

\* CPU::new
NewCPU(r) ==
    [terminal |-> NewTerminal(r),
     memory |-> [a \in Addrs |-> IF a < Len(FONT) THEN FONT[a + 1] ELSE 0],
     stack |-> [k \in 0..15 |-> 0],
     v |-> [k \in 0..15 |-> 0],
     i |-> 0, dt |-> 0, st |-> 0, pc |-> 512, sp |-> 0,
     panicked |-> FALSE]

\* CPU::load: clone_from_slice panics unless the lengths are equal
load(self, data) ==
    IF Len(data) # MEMORY - 512 THEN Panic(self)
    ELSE [self EXCEPT !.memory =
             [a \in Addrs |-> IF a < 512 THEN self.memory[a] ELSE data[a - 511]]]

\* CPU::read_instruction, for a pc whose two bytes are in memory
read_instruction(self) ==
    LET first_byte == self.memory[self.pc]
        second_byte == self.memory[self.pc + 1]
    IN  <<first_byte \div 16, first_byte % 16, second_byte \div 16, second_byte % 16>>

\* a skip of one byte in place of one instruction
skip_one_byte(self) == [self EXCEPT !.pc = self.pc + 1]

\* self.pc += 2 in a handler that skips the next instruction
skip(self) == [self EXCEPT !.pc = self.pc + 2]

se_vx_byte(self, x, k1, k2) ==
    IF self.v[x] = to_byte(k1, k2) THEN skip(self) ELSE self

sne_vx_byte(self, x, k1, k2) ==
    IF self.v[x] # to_byte(k1, k2) THEN skip(self) ELSE self

se_vx_vy(self, x, y) ==
    IF self.v[x] = self.v[y] THEN skip(self) ELSE self

sne_vx_vy(self, x, y) ==
    IF self.v[x] # self.v[y] THEN skip(self) ELSE self

\* two assignments to self.v in program order: v[0xF] first, then v[x]
set_flag_then_vx(self, flag, x, val) ==
    [self EXCEPT !.v = [[self.v EXCEPT ![15] = flag] EXCEPT ![x] = val]]

shl_vx(self, x) ==
    LET vx == self.v[x]
    IN  set_flag_then_vx(self, IF BitAnd(vx, 128) = 128 THEN 1 ELSE 0,
                         x, AsU8(vx * 2))

subn_vx_vy(self, x, y) ==
    LET vx == self.v[x]
        vy == self.v[y]
    IN  set_flag_then_vx(self, IF vy >= vx THEN 1 ELSE 0, x, wrapping_sub(vy, vx))

shr_vx(self, x) ==
    LET vx == self.v[x]
    IN  set_flag_then_vx(self, IF BitAnd(vx, 1) = 1 THEN 1 ELSE 0, x, vx \div 2)

sub_vx_vy(self, x, y) ==
    LET vx == self.v[x]
        vy == self.v[y]
    IN  set_flag_then_vx(self, IF vx >= vy THEN 1 ELSE 0, x, wrapping_sub(vx, vy))

\* (vx + vy % 256) as u8, with vx and vy widened to u16
add_vx_vy(self, x, y) ==
    LET vx == self.v[x]
        vy == self.v[y]
    IN  set_flag_then_vx(self, IF vx + vy > 255 THEN 1 ELSE 0,
                         x, AsU8(vx + (vy % 256)))

\* call_addr indexing the stack with sp modulo 16
call_addr_wrapping(self, a, b, c) ==
    [self EXCEPT !.stack = [self.stack EXCEPT ![self.sp % 16] = self.pc],
                 !.sp = self.sp + 1,
                 !.pc = addr(a, b, c)]

\* stack[sp] is out of bounds for sp >= 16
call_addr(self, a, b, c) ==
    IF self.sp > 15 THEN Panic(self)
    ELSE [self EXCEPT !.stack = [self.stack EXCEPT ![self.sp] = self.pc],
                      !.sp = self.sp + 1,
                      !.pc = addr(a, b, c)]

\* ret with sp taken modulo 16 and no failure
ret_wrapping(self) ==
    LET nsp == (self.sp - 1) % 16
    IN  [self EXCEPT !.sp = nsp, !.pc = self.stack[nsp]]

\* sp -= 1 underflows at sp = 0: a panic in a debug build; in a release
\* build sp wraps to 255 and stack[255] is out of bounds
\* ret reading the stack slot before it decrements sp
ret_read_before_decrement(self) ==
    IF self.sp > 15 THEN Panic(self)
    ELSE IF self.sp = 0 /\ overflow_checks THEN Panic(self)
    ELSE [self EXCEPT !.sp = (self.sp - 1) % 256, !.pc = self.stack[self.sp]]

ret(self) ==
    IF self.sp = 0 /\ overflow_checks THEN Panic(self)
    ELSE LET nsp == (self.sp - 1) % 256
         IN  IF nsp > 15 THEN Panic([self EXCEPT !.sp = nsp])
             ELSE [self EXCEPT !.sp = nsp, !.pc = self.stack[nsp]]

\* ld_b_vx with vx / 10 for the tens digit
ld_b_vx_tens_unreduced(self, x) ==
    LET vx == self.v[x]
    IN  IF self.i + 2 >= MEMORY THEN Panic(self)
        ELSE [self EXCEPT !.memory =
                 [self.memory EXCEPT ![self.i] = vx \div 100,
                                     ![self.i + 1] = vx \div 10,
                                     ![self.i + 2] = vx % 10]]

ld_b_vx(self, x) ==
    LET vx == self.v[x]
    IN  IF self.i + 2 >= MEMORY THEN Panic(self)
        ELSE [self EXCEPT !.memory =
                 [self.memory EXCEPT ![self.i] = vx \div 100,
                                     ![self.i + 1] = (vx % 100) \div 10,
                                     ![self.i + 2] = vx % 10]]

ld_i_vx(self, x) ==
    IF self.i + x >= MEMORY THEN Panic(self)
    ELSE [self EXCEPT !.memory =
             [a \in Addrs |-> IF a >= self.i /\ a <= self.i + x
                              THEN self.v[a - self.i] ELSE self.memory[a]]]

\* ld_vx_i with the range 0..x in place of 0..=x
ld_vx_i_exclusive(self, x) ==
    IF self.i + x >= MEMORY THEN Panic(self)
    ELSE [self EXCEPT !.v =
             [k \in 0..15 |-> IF k < x THEN self.memory[self.i + k] ELSE self.v[k]]]

ld_vx_i(self, x) ==
    IF self.i + x >= MEMORY THEN Panic(self)
    ELSE [self EXCEPT !.v =
             [k \in 0..15 |-> IF k <= x THEN self.memory[self.i + k] ELSE self.v[k]]]

\* drw passing (Vy, Vx) for (x, y)
drw_swapped(self, x, y, n) ==
    IF self.i + n > MEMORY THEN Panic(self)
    ELSE LET sprite == [k \in 1..n |-> self.memory[self.i + k - 1]]
             r == draw_sprite(self.terminal, self.v[y], self.v[x], sprite)
         IN  [self EXCEPT !.terminal = r.terminal,
                          !.v = [self.v EXCEPT ![15] = r.ret]]

\* the DRW arm: the slice memory[i .. i + n] panics past the end of memory
drw(self, x, y, n) ==
    IF self.i + n > MEMORY THEN Panic(self)
    ELSE LET sprite == [k \in 1..n |-> self.memory[self.i + k - 1]]
             r == draw_sprite(self.terminal, self.v[x], self.v[y], sprite)
         IN  [self EXCEPT !.terminal = r.terminal,
                          !.v = [self.v EXCEPT ![15] = r.ret]]

\* the SKP arm
skp(self, x) ==
    LET r == check_if_pressed(self.terminal, self.v[x])
        s == [self EXCEPT !.terminal = r.terminal]
    IN  IF r.ret THEN skip(s) ELSE s

\* the SKNP arm
sknp(self, x) ==
    LET r == check_if_pressed(self.terminal, self.v[x])
        s == [self EXCEPT !.terminal = r.terminal]
    IN  IF ~r.ret THEN skip(s) ELSE s

\* ld_vx_k without the rewind of pc
ld_vx_k_no_rewind(self, x) ==
    LET r == wait_for_key_press(self.terminal)
        s == [self EXCEPT !.terminal = r.terminal]
    IN  IF r.ret # <<>>
        THEN [s EXCEPT !.v = [s.v EXCEPT ![x] = r.ret[1]]]
        ELSE s

\* the LD Vx, K arm
ld_vx_k(self, x) ==
    LET r == wait_for_key_press(self.terminal)
        s == [self EXCEPT !.terminal = r.terminal]
    IN  IF r.ret # <<>>
        THEN [s EXCEPT !.v = [s.v EXCEPT ![x] = r.ret[1]]]
        ELSE [s EXCEPT !.pc = s.pc - 2]

\* the ADD I, Vx arm: u16 + u16
add_i_vx(self, x) ==
    IF AddOverflows16(self.i, self.v[x]) /\ overflow_checks THEN Panic(self)
    ELSE [self EXCEPT !.i = (self.i + self.v[x]) % 65536]

\* self.pc += 2 at the head of execute_instruction
advance_pc(self) ==
    IF AddOverflows16(self.pc, 2) /\ overflow_checks THEN Panic(self)
    ELSE [self EXCEPT !.pc = (self.pc + 2) % 65536]

\* the match of execute_instruction; rnd is the byte random::<u8>() yields
dispatch(self, a, b, c, d, rnd) ==
    CASE a = 0 /\ <<b, c, d>> = <<0, 14, 0>> ->
            [self EXCEPT !.terminal = clear(self.terminal)]
      [] a = 0 /\ <<b, c, d>> = <<0, 14, 14>> -> ret(self)
      [] a = 1 -> [self EXCEPT !.pc = addr(b, c, d)]
      [] a = 2 -> call_addr(self, b, c, d)
      [] a = 3 -> se_vx_byte(self, b, c, d)
      [] a = 4 -> sne_vx_byte(self, b, c, d)
      [] a = 5 /\ d = 0 -> se_vx_vy(self, b, c)
      [] a = 6 -> [self EXCEPT !.v = [self.v EXCEPT ![b] = to_byte(c, d)]]
      [] a = 7 -> [self EXCEPT !.v = [self.v EXCEPT ![b] =
                                        AsU8(self.v[b] + to_byte(c, d))]]
      [] a = 8 /\ d = 0 -> [self EXCEPT !.v = [self.v EXCEPT ![b] = self.v[c]]]
      [] a = 8 /\ d = 1 ->
            [self EXCEPT !.v = [self.v EXCEPT ![b] = BitOr(self.v[b], self.v[c])]]
      [] a = 8 /\ d = 2 ->
            [self EXCEPT !.v = [self.v EXCEPT ![b] = BitAnd(self.v[b], self.v[c])]]
      [] a = 8 /\ d = 3 ->
            [self EXCEPT !.v = [self.v EXCEPT ![b] = BitXor(self.v[b], self.v[c])]]
      [] a = 8 /\ d = 4 -> add_vx_vy(self, b, c)
      [] a = 8 /\ d = 5 -> sub_vx_vy(self, b, c)
      [] a = 8 /\ d = 6 -> shr_vx(self, b)
      [] a = 8 /\ d = 7 -> subn_vx_vy(self, b, c)
      [] a = 8 /\ d = 14 -> shl_vx(self, b)
      [] a = 9 /\ d = 0 -> sne_vx_vy(self, b, c)
      [] a = 10 -> [self EXCEPT !.i = addr(b, c, d)]
      [] a = 11 -> [self EXCEPT !.pc = self.v[0] + addr(b, c, d)]
      [] a = 12 -> [self EXCEPT !.v = [self.v EXCEPT ![b] =
                                         BitAnd(rnd, to_byte(c, d))]]
      [] a = 13 -> drw(self, b, c, d)
      [] a = 14 /\ <<c, d>> = <<9, 14>> -> skp(self, b)
      [] a = 14 /\ <<c, d>> = <<10, 1>> -> sknp(self, b)
      [] a = 15 /\ <<c, d>> = <<0, 7>> ->
            [self EXCEPT !.v = [self.v EXCEPT ![b] = self.dt]]
      [] a = 15 /\ <<c, d>> = <<0, 10>> -> ld_vx_k(self, b)
      [] a = 15 /\ <<c, d>> = <<1, 5>> -> [self EXCEPT !.dt = self.v[b]]
      [] a = 15 /\ <<c, d>> = <<1, 8>> -> [self EXCEPT !.st = self.v[b]]
      [] a = 15 /\ <<c, d>> = <<1, 14>> -> add_i_vx(self, b)
      [] a = 15 /\ <<c, d>> = <<2, 9>> ->
            [self EXCEPT !.i = BitAnd(self.v[b], 15) * 5]
      [] a = 15 /\ <<c, d>> = <<3, 3>> -> ld_b_vx(self, b)
      [] a = 15 /\ <<c, d>> = <<5, 5>> -> ld_i_vx(self, b)
      [] a = 15 /\ <<c, d>> = <<6, 5>> -> ld_vx_i(self, b)
      [] a = 0 /\ <<b, c, d>> \notin {<<0, 14, 0>>, <<0, 14, 14>>} -> self
      [] OTHER -> Panic(self)

\* CPU::execute_instruction
execute_instruction(self, instruction, rnd) ==
    LET s == advance_pc(self)
    IN  IF s.panicked THEN s
        ELSE dispatch(s, instruction[1], instruction[2], instruction[3],
                      instruction[4], rnd)

\* the timer updates of tick without the tests for zero
update_timers_wrapping(self) ==
    [self EXCEPT !.dt = (self.dt - 1) % 256, !.st = (self.st - 1) % 256]

\* the timer updates of tick
update_timers(self) ==
    [self EXCEPT !.dt = IF self.dt > 0 THEN self.dt - 1 ELSE self.dt,
                 !.st = IF self.st > 0 THEN self.st - 1 ELSE self.st]

\* CPU::tick; memory[pc] or memory[pc + 1] out of bounds panics
tick(self, rnd) ==
    IF self.pc + 1 >= MEMORY THEN Panic(self)
    ELSE LET s == execute_instruction(self, read_instruction(self), rnd)
         IN  IF s.panicked THEN s ELSE update_timers(s)

(***************************************************************************)
(* The state machine: main() builds the CPU over an asynchronous stdin,    *)
(* loads the ROM buffer and calls tick in a loop (src/src/main.rs).        *)
(***************************************************************************)
Self ==
    [terminal |-> [pixels |-> pixels, unprocessed |-> unprocessed,
                   exit |-> exit, stdin |-> stdin],
     memory |-> memory, stack |-> stack, v |-> v, i |-> i, dt |-> dt,
     st |-> st, pc |-> pc, sp |-> sp, panicked |-> panicked]

Becomes(s) ==
    /\ memory' = s.memory
    /\ stack' = s.stack
    /\ v' = s.v
    /\ i' = s.i
    /\ dt' = s.dt
    /\ st' = s.st
    /\ pc' = s.pc
    /\ sp' = s.sp
    /\ panicked' = s.panicked
    /\ pixels' = s.terminal.pixels
    /\ unprocessed' = s.terminal.unprocessed
    /\ exit' = s.terminal.exit
    /\ stdin' = s.terminal.stdin

IsState(s) ==
    /\ memory = s.memory
    /\ stack = s.stack
    /\ v = s.v
    /\ i = s.i
    /\ dt = s.dt
    /\ st = s.st
    /\ pc = s.pc
    /\ sp = s.sp
    /\ panicked = s.panicked
    /\ pixels = s.terminal.pixels
    /\ unprocessed = s.terminal.unprocessed
    /\ exit = s.terminal.exit
    /\ stdin = s.terminal.stdin

\* what an operation record keeps of the state the operation started in
Snapshot ==
    [pixels |-> pixels, unprocessed |-> unprocessed, stdin |-> stdin,
     exit |-> exit, v |-> v, i |-> i, pc |-> pc, sp |-> sp, dt |-> dt,
     st |-> st]

NoOp == [name |-> "none", args |-> <<>>, ret |-> <<>>, pre |-> <<>>]

\* the operation records after an operation named name with arguments args
\* that returned result
Logged(name, args, result) ==
    /\ calls' = calls + 1
    /\ last' = [name |-> name, args |-> args, ret |-> result, pre |-> Snapshot]
    /\ prev' = IF last.name = name /\ last.args = args THEN last ELSE NoOp

\* the bytes of a program given as a sequence of instructions (four nibbles)
Rom(prog) ==
    [k \in 1..(2 * Len(prog)) |->
        LET w == prog[(k + 1) \div 2]
        IN  IF k % 2 = 1 THEN w[1] * 16 + w[2] ELSE w[3] * 16 + w[4]]

\* main's buffer: [0; 3584] with the ROM read into its head
Buf(rom) == SubSeq(rom \o [k \in 1..(3584 - Len(rom)) |-> 0], 1, 3584)

\* the state main() is in before its loop, for a ROM and a build profile
Boot(prog, checks) ==
    /\ LET s == load(NewCPU(<<>>), Buf(Rom(prog))) IN IsState(s)
    /\ overflow_checks = checks
    /\ timer_flag = FALSE
    /\ calls = 0
    /\ arrived = 0
    /\ last = NoOp
    /\ prev = NoOp
    /\ pending = <<>>
    /\ stored = <<>>

\* the instruction at pc, <<>> when pc is past the end of memory
Fetched == IF pc + 1 < MEMORY THEN read_instruction(Self) ELSE <<>>

ByteSpread == 1

\* the bytes the model draws for random::<u8>()
ByteSamples ==
    (0..ByteSpread) \cup ((128 - ByteSpread)..(127 + ByteSpread))
        \cup ((255 - ByteSpread)..255)

\* the bytes random::<u8>() yields for the instruction at pc (one choice
\* when the instruction draws none)
RandomBytes == IF Fetched # <<>> /\ Fetched[1] = 12 THEN ByteSamples ELSE {0}

\* the terminal of the state
Term == Self.terminal

TermBecomes(t) ==
    /\ pixels' = t.pixels
    /\ unprocessed' = t.unprocessed
    /\ exit' = t.exit
    /\ stdin' = t.stdin

\* a call of Terminal::draw_sprite
DrawSprite(bound, x, y, sprite) ==
    /\ calls < bound
    /\ LET r == draw_sprite(Term, x, y, sprite)
       IN  /\ TermBecomes(r.terminal)
           /\ Logged("draw_sprite", <<x, y, sprite>>, r.ret)
    /\ UNCHANGED <<cpuVars, overflow_checks, timer_flag, arrived, pending,
                   stored>>

\* a call of Terminal::clear
Clear(bound) ==
    /\ calls < bound
    /\ TermBecomes(clear(Term))
    /\ Logged("clear", <<>>, <<>>)
    /\ UNCHANGED <<cpuVars, overflow_checks, timer_flag, arrived, pending,
                   stored>>

\* a call of Terminal::check_if_pressed
CheckIfPressed(bound, expected) ==
    /\ calls < bound
    /\ LET r == check_if_pressed(Term, expected)
       IN  /\ TermBecomes(r.terminal)
           /\ Logged("check_if_pressed", <<expected>>, r.ret)
    /\ UNCHANGED <<cpuVars, overflow_checks, timer_flag, arrived, pending,
                   stored>>

\* a call of Terminal::wait_for_key_press
WaitForKeyPress(bound) ==
    /\ calls < bound
    /\ LET r == wait_for_key_press(Term)
       IN  /\ TermBecomes(r.terminal)
           /\ Logged("wait_for_key_press", <<>>, r.ret)
    /\ UNCHANGED <<cpuVars, overflow_checks, timer_flag, arrived, pending,
                   stored>>

\* the user presses a key: one more event for async_stdin to yield
KeyArrives(bound, key) ==
    /\ arrived < bound
    /\ stdin' = Append(stdin, key)
    /\ arrived' = arrived + 1
    /\ UNCHANGED <<cpuVars, pixels, unprocessed, exit, overflow_checks,
                   timer_flag, calls, last, prev, pending, stored>>

\* one iteration of main's loop: cpu.tick(update_timers), then the flag of
\* the next call, which is true when more than 16667 microseconds have gone
\* by since it last was (any call may be that one).  CPU::tick has no
\* parameter to take the flag with.  The loop is taken to go on until a
\* panic; a loop that also stops on the exit flag has fewer runs.
Tick(bound) ==
    /\ ~panicked
    /\ calls < bound
    /\ \E rnd \in RandomBytes : LET s == tick(Self, rnd) IN Becomes(s)
    /\ timer_flag' \in BOOLEAN
    /\ Logged("tick", <<pc, Fetched>>, <<>>)
    /\ pending' = IF panicked' THEN pending
                  ELSE IF Fetched[1] = 2 THEN Append(pending, <<pc, sp>>)
                  ELSE IF Fetched = <<0, 0, 14, 14>> /\ pending # <<>>
                       THEN SubSeq(pending, 1, Len(pending) - 1)
                  ELSE pending
    /\ stored' = IF panicked' THEN stored
                 ELSE IF <<Fetched[1], Fetched[3], Fetched[4]>> = <<15, 5, 5>>
                      THEN <<Fetched[2], i, v>>
                 ELSE IF memory' # memory THEN <<>>
                 ELSE stored
    /\ UNCHANGED <<overflow_checks, arrived>>

(***************************************************************************)
(* ALU programs: RND Vx, 0xFF; RND Vy, 0xFF; then one 8xyN instruction.    *)
(* The random bytes are drawn from ByteSamples.                            *)
(***************************************************************************)
RegSpread == 1
AluTicks == 3

RegSamples == (0..RegSpread) \cup {15}

RndByte(x) == <<12, x, 15, 15>>

AluPrograms ==
    {<<RndByte(x), RndByte(y), <<8, x, y, n>>>> :
        x \in RegSamples, y \in RegSamples, n \in {4, 5, 6, 7, 14}}

InitALU == \E prog \in AluPrograms, checks \in BOOLEAN : Boot(prog, checks)

NextALU == Tick(AluTicks)

SpecALU == InitALU /\ [][NextALU]_vars

(***************************************************************************)
(* Properties of the ALU instructions (checked under SpecALU).             *)
(***************************************************************************)
\* this step is a tick that executed instruction instr without a panic
Executes(instr) ==
    /\ calls' = calls + 1
    /\ last'.name = "tick"
    /\ last'.args = <<pc, instr>>
    /\ ~panicked'

\* the last operation was a tick that executed instruction instr
Executed(instr) ==
    /\ last.name = "tick"
    /\ last.args[2] = instr
    /\ ~panicked

Carry(a, b) == IF a + b > 255 THEN 1 ELSE 0

\* C1 as stated: for all x, y in 0..15, 8xy4 leaves VF = 1 if Vx + Vy > 255
\* and 0 otherwise, and leaves Vx = (Vx + Vy) mod 256.
C1_AddAllRegisters ==
    [][\A x \in 0..15, y \in 0..15 :
          Executes(<<8, x, y, 4>>) =>
              /\ v'[15] = Carry(v[x], v[y])
              /\ v'[x] = (v[x] + v[y]) % 256]_vars

\* What the code guarantees of C1: 8xy4 leaves Vx = (Vx + Vy) mod 256 for
\* every x, y in 0..15, and leaves VF = the carry whenever x is not 15 (for
\* x = 15 the sum, written last, is what VF holds).
C1_Add ==
    [][\A x \in 0..15, y \in 0..15 :
          Executes(<<8, x, y, 4>>) =>
              /\ v'[x] = (v[x] + v[y]) % 256
              /\ x # 15 => v'[15] = Carry(v[x], v[y])]_vars

\* an ADD into a register other than VF has produced a carry
C1_Witness ==
    \E x \in 0..14, y \in 0..15 :
        /\ Executed(<<8, x, y, 4>>)
        /\ v[15] = 1
        /\ v[x] < 255

\* C2 as stated: for all x, y in 0..15, 8xy5 leaves VF = 1 iff Vx >= Vy and
\* Vx = (Vx - Vy) mod 256; 8xy7 leaves VF = 1 iff Vy >= Vx and
\* Vx = (Vy - Vx) mod 256.
C2_SubAllRegisters ==
    [][\A x \in 0..15, y \in 0..15 :
          /\ Executes(<<8, x, y, 5>>) =>
                /\ v'[15] = (IF v[x] >= v[y] THEN 1 ELSE 0)
                /\ v'[x] = (v[x] - v[y]) % 256
          /\ Executes(<<8, x, y, 7>>) =>
                /\ v'[15] = (IF v[y] >= v[x] THEN 1 ELSE 0)
                /\ v'[x] = (v[y] - v[x]) % 256]_vars

\* What the code guarantees of C2: the differences are as stated for every
\* x, y in 0..15, and VF is the no-borrow flag whenever x is not 15.
C2_Sub ==
    [][\A x \in 0..15, y \in 0..15 :
          /\ Executes(<<8, x, y, 5>>) =>
                /\ v'[x] = (v[x] - v[y]) % 256
                /\ x # 15 => v'[15] = (IF v[x] >= v[y] THEN 1 ELSE 0)
          /\ Executes(<<8, x, y, 7>>) =>
                /\ v'[x] = (v[y] - v[x]) % 256
                /\ x # 15 => v'[15] = (IF v[y] >= v[x] THEN 1 ELSE 0)]_vars

\* a SUB of two equal, non-zero values into a register other than VF
C2_Witness ==
    \E x \in 0..14, y \in 0..14 :
        /\ x # y
        /\ Executed(<<8, x, y, 5>>)
        /\ v[15] = 1
        /\ v[x] = 0
        /\ v[y] > 0

\* C3 as stated: for all x in 0..15, 8xy6 leaves VF = bit 0 of Vx and
\* Vx = Vx div 2; 8xyE leaves VF = bit 7 of Vx and Vx = (2 * Vx) mod 256.
C3_ShiftAllRegisters ==
    [][\A x \in 0..15, y \in 0..15 :
          /\ Executes(<<8, x, y, 6>>) =>
                /\ v'[15] = v[x] % 2
                /\ v'[x] = v[x] \div 2
          /\ Executes(<<8, x, y, 14>>) =>
                /\ v'[15] = v[x] \div 128
                /\ v'[x] = (2 * v[x]) % 256]_vars

\* What the code guarantees of C3: the shifted values are as stated for
\* every x in 0..15, and VF is the bit shifted out whenever x is not 15.
C3_Shift ==
    [][\A x \in 0..15, y \in 0..15 :
          /\ Executes(<<8, x, y, 6>>) =>
                /\ v'[x] = v[x] \div 2
                /\ x # 15 => v'[15] = v[x] % 2
          /\ Executes(<<8, x, y, 14>>) =>
                /\ v'[x] = (2 * v[x]) % 256
                /\ x # 15 => v'[15] = v[x] \div 128]_vars

\* a SHL of a value with bit 7 set and bit 6 clear, not into VF
C3_Witness ==
    \E x \in 0..14, y \in 0..15 :
        /\ Executed(<<8, x, y, 14>>)
        /\ v[15] = 1
        /\ v[x] < 128

(***************************************************************************)
(* CALL/RET programs: every slot of a short program holds a CALL to one of *)
(* the slots, a RET or a JP to the first slot.                             *)
(***************************************************************************)
CallSlots == 3
CallTicks == 18

SlotAddr(k) == 512 + 2 * k

Word(op, a) == <<op, a \div 256, (a \div 16) % 16, a % 16>>

CallWords ==
    {Word(2, SlotAddr(k)) : k \in 0..(CallSlots - 1)}
        \cup {<<0, 0, 14, 14>>, Word(1, SlotAddr(0))}

CallPrograms == [1..CallSlots -> CallWords]

InitCall == \E prog \in CallPrograms, checks \in BOOLEAN : Boot(prog, checks)

NextCall == Tick(CallTicks)

SpecCall == InitCall /\ [][NextCall]_vars

\* C4: a RET that returns from the CALL executed at address p (the innermost
\* CALL not yet returned from) leaves PC = p + 2 and SP at its value before
\* that CALL.
C4_CallRet ==
    [][(Executes(<<0, 0, 14, 14>>) /\ pending # <<>>) =>
          /\ pc' = pending[Len(pending)][1] + 2
          /\ sp' = pending[Len(pending)][2]]_vars

\* a RET has returned from a nested CALL to an address other than the one
\* after the first CALL
C4_Witness ==
    /\ Executed(<<0, 0, 14, 14>>)
    /\ pending # <<>>
    /\ sp = Len(pending)
    /\ pc # stack[0]

(***************************************************************************)
(* The framebuffer alone: calls of draw_sprite and clear on a terminal.    *)
(***************************************************************************)
DrawCalls == 3

XSamples == {1, 60, 255}
YSamples == {1, 31, 255}
SpriteSamples == {<<195, 60>>, <<128>>, <<0>>, <<>>}

\* the terminal of a CPU that main() has built and not yet ticked (the
\* terminal has no arithmetic that the build profile changes)
InitDraw == Boot(<<>>, TRUE)

NextDraw ==
    \/ \E x \in XSamples, y \in YSamples, sprite \in SpriteSamples :
          DrawSprite(DrawCalls, x, y, sprite)
    \/ Clear(DrawCalls)

SpecDraw == InitDraw /\ [][NextDraw]_vars

\* this step is a draw_sprite call that repeats the call before it
RedrawStep ==
    /\ calls' = calls + 1
    /\ last.name = "draw_sprite"
    /\ last'.name = "draw_sprite"
    /\ last'.args = last.args

\* C5 as stated: drawing the same sprite twice in a row at the same place
\* leaves every pixel as before the first call, and the second call returns
\* 0 whenever the first returned 0.
C5_RedrawNoCollision ==
    [][RedrawStep =>
          /\ pixels' = last.pre.pixels
          /\ last.ret = 0 => last'.ret = 0]_vars

\* C5 amended: the pixels are restored, and when the first call returned 0
\* the second returns 1 if the sprite has a set bit (those pixels are now
\* switched off again) and 0 only if it has none.
C5_Redraw ==
    [][RedrawStep =>
          /\ pixels' = last.pre.pixels
          /\ last.ret = 0 =>
                last'.ret = (IF \E k \in 1..Len(last.args[3]) : last.args[3][k] # 0
                             THEN 1 ELSE 0)]_vars

\* a sprite was drawn twice in a row on a framebuffer that was not blank,
\* the first call without a collision
C5_Witness ==
    /\ last.name = "draw_sprite"
    /\ prev.name = "draw_sprite"
    /\ prev.ret = 0
    /\ last.ret = 1
    /\ pixels # BlankPixels
    /\ pixels = prev.pre.pixels

\* the pixels that are set, as <<row, column>> pairs
PixelSet(px) == UNION {{<<r, 63 - b>> : b \in px[r]} : r \in Rows}

\* the <<row, column>> pairs that the set bits of a sprite drawn at (x, y)
\* fall on: bit j (0 = leftmost) of byte k at row (y + k) mod 32 and
\* column (x + j) mod 64
SpriteCells(x, y, sprite) ==
    {<<(y + k - 1) % 32, (x + j) % 64>> :
        <<k, j>> \in {kj \in (1..Len(sprite)) \X (0..7) :
                        Bit(sprite[kj[1]], 7 - kj[2]) = 1}}

\* C6: draw_sprite(x, y, sprite) toggles exactly the pixels its set bits
\* fall on, rows wrapping modulo 32 and columns modulo 64, and changes no
\* other pixel.
C6_DrawXor ==
    [][(calls' = calls + 1 /\ last'.name = "draw_sprite") =>
          LET cells == SpriteCells(last'.args[1], last'.args[2], last'.args[3])
              old == PixelSet(pixels)
          IN  PixelSet(pixels') = (old \ cells) \cup (cells \ old)]_vars

\* a sprite was drawn across the right and the bottom edge of a framebuffer
\* that was not blank
C6_Witness ==
    /\ last.name = "draw_sprite"
    /\ last.args = <<60, 255, <<195, 60>>>>
    /\ last.pre.pixels # BlankPixels
    /\ PixelAt(pixels, 31, 61) # PixelAt(last.pre.pixels, 31, 61)
    /\ PixelAt(pixels, 31, 2) # PixelAt(last.pre.pixels, 31, 2)
    /\ PixelAt(pixels, 0, 63) # PixelAt(last.pre.pixels, 0, 63)
    /\ PixelAt(pixels, 0, 0) # PixelAt(last.pre.pixels, 0, 0)

(***************************************************************************)
(* DRW programs: RND Vx; RND Vy; LD I, a; DRW Vx, Vy, n; DRW Vx, Vy, m.    *)
(***************************************************************************)
DrwTicks == 5

DrwPrograms ==
    {<<RndByte(x), RndByte(y), Word(10, a), <<13, x, y, n>>, <<13, x, y, m>>>> :
        x \in {0, 15}, y \in {1, 15}, a \in {0, 4090}, n \in {5, 15}, m \in {0, 5}}

InitDrw == \E prog \in DrwPrograms, checks \in BOOLEAN : Boot(prog, checks)

NextDrw == Tick(DrwTicks)

SpecDrw == InitDrw /\ [][NextDrw]_vars

\* C7: Dxyn draws memory[I .. I+n] at (Vx, Vy) with draw_sprite and sets VF
\* to its result, which is 1 iff some pixel set before the draw is unset
\* after it, and 0 otherwise.
C7_DrwFlag ==
    [][\A x \in 0..15, y \in 0..15, n \in 0..15 :
          Executes(<<13, x, y, n>>) =>
              LET sprite == [k \in 1..n |-> memory[i + k - 1]]
                  r == draw_sprite(Term, v[x], v[y], sprite)
              IN  /\ v'[15] = r.ret
                  /\ pixels' = r.terminal.pixels
                  /\ v'[15] \in {0, 1}
                  /\ v'[15] = 1 <=> PixelSet(pixels) \ PixelSet(pixels') # {}]_vars

\* a DRW has switched off some pixels and left others on
C7_Witness ==
    \E x \in 0..15, y \in 0..15, n \in 1..15 :
        /\ Executed(<<13, x, y, n>>)
        /\ v[15] = 1
        /\ pixels # BlankPixels
        /\ PixelSet(last.pre.pixels) \ PixelSet(pixels) # {}

(***************************************************************************)
(* The keypad alone: calls of check_if_pressed and wait_for_key_press on a *)
(* terminal whose stdin receives key events.                               *)
(***************************************************************************)
MaxKeys == 3
KeyCalls == 3

KeyEventSamples == {"1", "a", "Ctrl-c", "z"}
ExpectedSamples == {1, 5, 10}

\* the terminal of a CPU that main() has built and not yet ticked (the
\* terminal has no arithmetic that the build profile changes)
InitKeys == Boot(<<>>, TRUE)

NextKeys ==
    \/ \E expected \in ExpectedSamples : CheckIfPressed(KeyCalls, expected)
    \/ WaitForKeyPress(KeyCalls)
    \/ \E key \in KeyEventSamples : KeyArrives(MaxKeys, key)

SpecKeys == InitKeys /\ [][NextKeys]_vars

Range(q) == {q[n] : n \in 1..Len(q)}

IsPrefix(p, q) == Len(p) <= Len(q) /\ SubSeq(q, 1, Len(p)) = p

\* the sixteen characters of the keypad; the code of a character is its
\* place in this list
HexChars ==
    <<"0", "1", "2", "3", "4", "5", "6", "7", "8", "9", "a", "b", "c", "d", "e", "f">>

\* the key codes (0..15) of a sequence of events, other events left out
RECURSIVE HexCodes(_)
HexCodes(events) ==
    IF events = <<>> THEN <<>>
    ELSE LET n == {c \in 1..16 : HexChars[c] = Head(events)}
         IN  (IF n = {} THEN <<>> ELSE <<(CHOOSE c \in n : TRUE) - 1>>)
                 \o HexCodes(Tail(events))

\* the place of the first event with key code k in a sequence of events,
\* 0 when there is none
FirstEvent(events, k) ==
    LET hits == {n \in 1..Len(events) : HexCodes(<<events[n]>>) = <<k>>}
    IN  IF hits = {} THEN 0 ELSE CHOOSE n \in hits : \A m \in hits : n <= m

\* the place of the first occurrence of k in a queue that holds it
FirstPlace(q, k) ==
    CHOOSE n \in 1..Len(q) : q[n] = k /\ \A m \in 1..(n - 1) : q[m] # k

\* this step is a call of check_if_pressed
CheckStep == calls' = calls + 1 /\ last'.name = "check_if_pressed"

\* what C8 and its amendment share: a check that finds expected in the
\* queue returns true, drops the entries up to and including the first
\* occurrence, keeps the later ones in order and reads nothing from stdin.
QueueMatch ==
    (CheckStep /\ last'.args[1] \in Range(unprocessed)) =>
        /\ last'.ret = TRUE
        /\ unprocessed' = SubSeq(unprocessed,
                                 FirstPlace(unprocessed, last'.args[1]) + 1,
                                 Len(unprocessed))
        /\ stdin' = stdin

\* C8 as stated: a queued key stays in the queue whatever other expected
\* value is checked, so that a later check for it returns true; and a check
\* that finds expected in the queue behaves as QueueMatch says.
C8_KeyStaysQueued ==
    [][/\ CheckStep =>
              \A k \in Range(unprocessed) \ {last'.args[1]} :
                  k \in Range(unprocessed')
       /\ QueueMatch]_vars

\* C8 amended: a key decoded without a match is appended to the queue and a
\* queued key stays queued through every check that returns false and every
\* wait_for_key_press (a check that returns true may drop it); while a key
\* is queued, a check for it returns true as QueueMatch says.
C8_KeyQueued ==
    [][/\ (CheckStep /\ last'.ret = FALSE) =>
              /\ IsPrefix(unprocessed, unprocessed')
              /\ Range(HexCodes(stdin)) \subseteq Range(unprocessed')
       /\ (calls' = calls + 1 /\ last'.name = "wait_for_key_press") =>
              unprocessed' = unprocessed
       /\ QueueMatch]_vars

\* a check found its key in the middle of the queue: the entry before it
\* was dropped with it and the entry after it was kept
C8_Witness ==
    /\ last.name = "check_if_pressed"
    /\ last.ret = TRUE
    /\ Len(last.pre.unprocessed) = 3
    /\ last.pre.unprocessed[2] = last.args[1]
    /\ last.pre.unprocessed[1] # last.args[1]
    /\ unprocessed = <<last.pre.unprocessed[3]>>

WaitTicks == 4

WaitPrograms == {<<<<15, x, 0, 10>>, <<15, 15, 0, 10>>>> : x \in {0, 15}}

InitWait == \E prog \in WaitPrograms, checks \in BOOLEAN : Boot(prog, checks)

NextWait ==
    \/ Tick(WaitTicks)
    \/ \E key \in KeyEventSamples : KeyArrives(MaxKeys, key)

SpecWait == InitWait /\ [][NextWait]_vars

\* C10: Fx0A executed at address p with no key to yield (stdin empty, or its
\* first event not a hex key) leaves PC = p and the registers, I, memory,
\* the stack and the framebuffer unchanged, so that the next tick fetches
\* the same instruction; with key k to yield it leaves Vx = k and PC = p + 2.
C10_KeyWait ==
    [][\A x \in 0..15 :
          Executes(<<15, x, 0, 10>>) =>
              LET key == IF stdin = <<>> THEN <<>> ELSE HexCodes(<<Head(stdin)>>)
              IN  IF key = <<>>
                  THEN /\ pc' = pc
                       /\ v' = v
                       /\ i' = i
                       /\ memory' = memory
                       /\ stack' = stack
                       /\ sp' = sp
                       /\ pixels' = pixels
                       /\ Fetched' = Fetched
                  ELSE /\ v' = [v EXCEPT ![x] = key[1]]
                       /\ pc' = pc + 2]_vars

\* an Fx0A that found no key was executed again and then got key 10
C10_Witness ==
    \E x \in 0..15 :
        /\ Executed(<<15, x, 0, 10>>)
        /\ prev.name = "tick"
        /\ prev.pre.pc = last.pre.pc
        /\ pc = last.pre.pc + 2
        /\ v[x] = 10

(***************************************************************************)
(* Timer programs: RND Vx, 3; LD DT, Vx; RND Vy, 3; LD ST, Vy; LD Vz, DT   *)
(* twice, then the zero words (SYS, no-ops) that fill the rest of memory.  *)
(***************************************************************************)
TimerTicks == 7

\* RND Vx, 3: a random byte masked to 0..3
RndSmall(x) == <<12, x, 0, 3>>

TimerPrograms ==
    {<<RndSmall(x), <<15, x, 1, 5>>, RndSmall(y), <<15, y, 1, 8>>,
       <<15, 2, 0, 7>>, <<15, 2, 0, 7>>>> : x \in 0..1, y \in 0..1}

InitTimer == \E prog \in TimerPrograms, checks \in BOOLEAN : Boot(prog, checks)

NextTimer == Tick(TimerTicks)

SpecTimer == InitTimer /\ [][NextTimer]_vars

\* this step is a tick that ended without a panic
TickStep ==
    /\ calls' = calls + 1
    /\ last'.name = "tick"
    /\ ~panicked'

\* the value the instruction of this tick leaves in DT (Fx15 writes Vx)
\* and in ST (Fx18 writes Vx), before any timer decrement
DtWritten ==
    LET instr == last'.args[2]
    IN  IF <<instr[1], instr[3], instr[4]>> = <<15, 1, 5>> THEN v[instr[2]] ELSE dt

StWritten ==
    LET instr == last'.args[2]
    IN  IF <<instr[1], instr[3], instr[4]>> = <<15, 1, 8>> THEN v[instr[2]] ELSE st

\* C11: a tick called with the timer flag unset executes its instruction and
\* decrements neither DT nor ST (each keeps the value the instruction left);
\* DT or ST goes down only in a tick called with the flag set.
C11_TimersOnlyWhenFlagged ==
    [][TickStep =>
          /\ ~timer_flag => (dt' = DtWritten /\ st' = StWritten)
          /\ (dt' < DtWritten \/ st' < StWritten) => timer_flag]_vars

\* C12: every timer decrement lowers DT by exactly 1 when DT > 0 and leaves
\* it at 0 when DT = 0, and does the same for ST whatever DT is; DT and ST
\* stay in 0..255 and never go from 0 to 255; a timer at 0 stays at 0 in
\* every tick but the one that executes Fx15 (for DT) or Fx18 (for ST).
C12_TimerFloor ==
    [][TickStep =>
          /\ dt' = (IF DtWritten > 0 THEN DtWritten - 1 ELSE 0)
          /\ st' = (IF StWritten > 0 THEN StWritten - 1 ELSE 0)
          /\ dt' \in 0..255 /\ st' \in 0..255
          /\ (dt = 0 /\ dt' # 0) => DtWritten = v[last'.args[2][2]]
          /\ (st = 0 /\ st' # 0) => StWritten = v[last'.args[2][2]]]_vars

\* DT stayed at 0 through a tick in which ST counted down from 2 to 1
C12_Witness ==
    /\ last.name = "tick"
    /\ ~panicked
    /\ last.pre.dt = 0
    /\ dt = 0
    /\ last.pre.st = 2
    /\ st = 1

(***************************************************************************)
(* Exit programs: LD V0, 1; SKP V0 or SKNP V0; LD V1, K; CLS or            *)
(* DRW V0, V0, 1, with key events arriving.                                *)
(***************************************************************************)
ExitTicks == 4

ExitPrograms ==
    {<<<<6, 0, 0, 1>>, w1, <<15, 1, 0, 10>>, w2>> :
        w1 \in {<<14, 0, 9, 14>>, <<14, 0, 10, 1>>},
        w2 \in {<<0, 0, 14, 0>>, <<13, 0, 0, 1>>}}

InitExit == \E prog \in ExitPrograms, checks \in BOOLEAN : Boot(prog, checks)

NextExit ==
    \/ Tick(ExitTicks)
    \/ \E key \in KeyEventSamples : KeyArrives(MaxKeys, key)

SpecExit == InitExit /\ [][NextExit]_vars

\* the events this step took from stdin (a tick takes them from the head)
Consumed == SubSeq(stdin, 1, Len(stdin) - Len(stdin'))

\* the instruction of this tick calls check_if_pressed (Ex9E, ExA1)
ChecksKey(instr) ==
    instr[1] = 14 /\ <<instr[3], instr[4]>> \in {<<9, 14>>, <<10, 1>>}

\* C13: a tick whose check_if_pressed or wait_for_key_press takes Ctrl-C
\* from stdin leaves the exit flag true, and the Ctrl-C adds nothing to the
\* unprocessed queue: after check_if_pressed the queue is empty (a later
\* event matched) or the old queue followed by the hex keys taken, after
\* wait_for_key_press it is the old queue.  Once true, the exit flag is
\* true after every step.
C13_ExitSticky ==
    [][/\ (TickStep /\ "Ctrl-c" \in Range(Consumed)) =>
              LET instr == last'.args[2]
              IN  /\ exit' = TRUE
                  /\ ChecksKey(instr) =>
                        unprocessed' =
                            (IF FirstEvent(Consumed, v[instr[2]]) # 0 THEN <<>>
                             ELSE unprocessed \o HexCodes(Consumed))
                  /\ ~ChecksKey(instr) => unprocessed' = unprocessed
       /\ exit => exit']_vars

\* a check took Ctrl-C and a hex key from stdin and queued the key; later
\* ticks left the exit flag set
C13_Witness ==
    /\ exit
    /\ last.name = "tick"
    /\ last.pre.exit
    /\ unprocessed = <<10>>
    /\ pc > 516

(***************************************************************************)
(* Loading: a call of load on the CPU that CPU::new built, with a short    *)
(* ROM as it is or read into main's 3584-byte buffer.                      *)
(***************************************************************************)
MaxRom == 4
LoadCalls == 1

RomBytes == {0, 18, 255}

\* the ROMs of at most MaxRom bytes
Roms == UNION {[1..n -> RomBytes] : n \in 0..MaxRom}

\* the state after CPU::new, before main has loaded anything
Fresh(checks) ==
    /\ IsState(NewCPU(<<>>))
    /\ overflow_checks = checks
    /\ timer_flag = FALSE
    /\ calls = 0
    /\ arrived = 0
    /\ last = NoOp
    /\ prev = NoOp
    /\ pending = <<>>
    /\ stored = <<>>

\* a call of CPU::load
Load(bound, data) ==
    /\ ~panicked
    /\ calls < bound
    /\ LET s == load(Self, data) IN Becomes(s)
    /\ Logged("load", <<data>>, <<>>)
    /\ UNCHANGED <<overflow_checks, timer_flag, arrived, pending,
                   stored>>

InitLoad == Fresh(TRUE)

NextLoad == \E rom \in Roms : Load(LoadCalls, rom) \/ Load(LoadCalls, Buf(rom))

SpecLoad == InitLoad /\ [][NextLoad]_vars

\* this step is a call load(data) on the CPU as CPU::new left it
LoadsFresh(data) ==
    /\ calls = 0
    /\ calls' = 1
    /\ last'.name = "load"
    /\ last'.args = <<data>>

\* memory' holds data from 0x200 on, zeros after it and below 0x200 what
\* memory holds
Loaded(data) ==
    /\ ~panicked'
    /\ \A a \in Addrs :
          memory'[a] = (IF a < 512 THEN memory[a]
                        ELSE IF a - 512 < Len(data) THEN data[a - 511]
                        ELSE 0)

\* C14 as stated: for every buffer of length 0..3584, load(buffer) on a
\* fresh interpreter leaves the buffer at 0x200, zeros from the end of the
\* buffer to 0xFFF and memory below 0x200 (the font table) unchanged.
C14_LoadAnyLength ==
    [][\A rom \in Roms :
          /\ LoadsFresh(rom) => Loaded(rom)
          /\ LoadsFresh(Buf(rom)) => Loaded(Buf(rom))]_vars

\* What the code guarantees of C14: load of a buffer of exactly 3584 bytes
\* (main's buffer, a ROM followed by zeros) leaves memory as C14 says; load
\* of a shorter buffer panics and leaves memory as it was.
C14_LoadFullBuffer ==
    [][\A rom \in Roms :
          /\ LoadsFresh(Buf(rom)) => Loaded(rom)
          /\ (LoadsFresh(rom) /\ Len(rom) # 3584) =>
                (panicked' /\ memory' = memory)]_vars

\* main's buffer with a ROM of MaxRom bytes has been loaded
C14_Witness ==
    /\ last.name = "load"
    /\ ~panicked
    /\ memory[512] = 18
    /\ memory[512 + MaxRom - 1] = 255
    /\ memory[512 + MaxRom] = 0

(***************************************************************************)
(* Dispatch programs: RND V1, 0xFF, then one instruction word.  The words  *)
(* take every value of the nibbles that the match of execute_instruction   *)
(* tells patterns apart by.                                                *)
(***************************************************************************)
DispatchTicks == 2

Nibbles == 0..15

DispatchWords ==
    {<<a, b, c, d>> : a \in {0, 5, 8, 9, 14, 15}, b \in 0..1,
                      c \in Nibbles, d \in Nibbles}
        \cup {<<a, b, c, d>> : a \in {1, 2, 3, 4, 6, 7, 10, 11, 12, 13},
                               b \in 0..1, c \in {0, 8}, d \in {0, 2}}

DispatchPrograms == {<<RndByte(1), w>> : w \in DispatchWords}

InitDispatch ==
    \E prog \in DispatchPrograms, checks \in BOOLEAN : Boot(prog, checks)

NextDispatch == Tick(DispatchTicks)

SpecDispatch == InitDispatch /\ [][NextDispatch]_vars

\* this step is a tick that fetched a word, whether or not it panicked
FetchStep == calls' = calls + 1 /\ last'.name = "tick"

\* the words of the dispatch table of the specification, 0nnn aside
Listed(w) ==
    \/ w \in {<<0, 0, 14, 0>>, <<0, 0, 14, 14>>}
    \/ w[1] \in {1, 2, 3, 4, 6, 7, 10, 11, 12, 13}
    \/ w[1] \in {5, 9} /\ w[4] = 0
    \/ w[1] = 8 /\ w[4] \in (0..7) \cup {14}
    \/ w[1] = 14 /\ <<w[3], w[4]>> \in {<<9, 14>>, <<10, 1>>}
    \/ w[1] = 15 /\ <<w[3], w[4]>> \in
          {<<0, 7>>, <<0, 10>>, <<1, 5>>, <<1, 8>>, <<1, 14>>, <<2, 9>>,
           <<3, 3>>, <<5, 5>>, <<6, 5>>}

\* a timer after the decrement that every tick ends with
Decremented(t) == IF t > 0 THEN t - 1 ELSE 0

\* the parts of the state that the instruction of this step changes (for a
\* timer: its value is not the old one decremented)
Changed ==
    {n \in {"memory", "stack", "v", "i", "dt", "st", "pc", "sp", "pixels",
            "unprocessed", "exit", "stdin"} :
        \/ n = "memory" /\ memory' # memory
        \/ n = "stack" /\ stack' # stack
        \/ n = "v" /\ v' # v
        \/ n = "i" /\ i' # i
        \/ n = "dt" /\ dt' # Decremented(dt)
        \/ n = "st" /\ st' # Decremented(st)
        \/ n = "pc" /\ pc' # pc
        \/ n = "sp" /\ sp' # sp
        \/ n = "pixels" /\ pixels' # pixels
        \/ n = "unprocessed" /\ unprocessed' # unprocessed
        \/ n = "exit" /\ exit' # exit
        \/ n = "stdin" /\ stdin' # stdin}

\* the parts of the state, PC aside, that the effect of a listed word
\* writes according to the dispatch table of the specification
Writes(w) ==
    CASE w = <<0, 0, 14, 0>> -> {"pixels"}
      [] w = <<0, 0, 14, 14>> -> {"sp"}
      [] w[1] = 2 -> {"sp", "stack"}
      [] w[1] \in {1, 3, 4, 5, 9, 11} -> {}
      [] w[1] \in {6, 7, 8, 12} -> {"v"}
      [] w[1] = 10 -> {"i"}
      [] w[1] = 13 -> {"v", "pixels"}
      [] w[1] = 14 -> {"unprocessed", "stdin", "exit"}
      [] w[1] = 15 /\ <<w[3], w[4]>> \in {<<0, 7>>, <<6, 5>>} -> {"v"}
      [] w[1] = 15 /\ <<w[3], w[4]>> = <<0, 10>> -> {"v", "stdin", "exit"}
      [] w[1] = 15 /\ <<w[3], w[4]>> = <<1, 5>> -> {"dt"}
      [] w[1] = 15 /\ <<w[3], w[4]>> = <<1, 8>> -> {"st"}
      [] w[1] = 15 /\ <<w[3], w[4]>> \in {<<1, 14>>, <<2, 9>>} -> {"i"}
      [] w[1] = 15 /\ <<w[3], w[4]>> \in {<<3, 3>>, <<5, 5>>} -> {"memory"}

\* the PC that the effect of a listed word may leave, fetched at p
Targets(w, p) ==
    CASE w = <<0, 0, 14, 14>> -> {stack[(sp - 1) % 16]}
      [] w[1] \in {1, 2} -> {addr(w[2], w[3], w[4])}
      [] w[1] = 11 -> {v[0] + addr(w[2], w[3], w[4])}
      [] w[1] \in {3, 4, 5, 9, 14} -> {p + 2, p + 4}
      [] w[1] = 15 /\ <<w[3], w[4]>> = <<0, 10>> -> {p, p + 2}
      [] OTHER -> {p + 2}

\* C15: a tick that fetches a word of the dispatch table runs the effect of
\* its pattern only (it writes no part of the state that the pattern does
\* not write, and fails only in RET with an empty stack); a tick that
\* fetches any other word 0nnn changes nothing but PC, which goes up by 2
\* (and the timers, which every tick decrements); a tick that fetches any
\* other word ends the run with a panic.
C15_Dispatch ==
    [][FetchStep =>
          LET w == last'.args[2]
          IN  IF Listed(w)
              THEN IF panicked' THEN w = <<0, 0, 14, 14>> /\ sp = 0
                   ELSE /\ Changed \ {"pc"} \subseteq Writes(w)
                        /\ pc' \in Targets(w, pc)
              ELSE IF w[1] = 0
              THEN ~panicked' /\ pc' = pc + 2 /\ Changed = {"pc"}
              ELSE panicked']_vars

\* the run ended at an Fxkk word that is none of the nine listed, fetched
\* after the first instruction had run
C15_Witness ==
    /\ panicked
    /\ last.name = "tick"
    /\ last.args[2] = <<15, 1, 15, 15>>
    /\ v[1] = 255

(***************************************************************************)
(* Font programs: RND V0, 0xFF; LD F, V0 or LD I, addr; then a store (LD   *)
(* B, V0 or LD [I], V1), a load or LD V0, 5; then LD F, V0.                *)
(***************************************************************************)
FontTicks == 4

FontPrograms ==
    {<<RndByte(0), w1, w2, <<15, 0, 2, 9>>>> :
        w1 \in {<<15, 0, 2, 9>>, Word(10, 78), Word(10, 80)},
        w2 \in {<<15, 0, 3, 3>>, <<15, 1, 5, 5>>, <<15, 1, 6, 5>>, <<6, 0, 0, 5>>}}

InitFont == \E prog \in FontPrograms, checks \in BOOLEAN : Boot(prog, checks)

NextFont == Tick(FontTicks)

SpecFont == InitFont /\ [][NextFont]_vars

\* bytes 0x000-0x04F of m are the font table
FontIntact(m) == \A a \in 0..(Len(FONT) - 1) : m[a] = FONT[a + 1]

\* the last tick executed Fx29 for some x, and left I = (Vx & 0xF) * 5 and
\* the five bytes at I those of the glyph of hex digit Vx & 0xF
GlyphSelected ==
    LET w == last.args[2]
        digit == last.pre.v[w[2]] % 16
    IN  /\ i = digit * 5
        /\ \A k \in 0..4 : memory[i + k] = FONT[5 * digit + k + 1]

\* C16 as stated: in every reachable state bytes 0x000-0x04F are the font
\* table, and after every Fx29 I = (Vx & 0xF) * 5 and memory[I..I+4] are
\* the glyph bytes of Vx & 0xF.
C16_FontFixed ==
    /\ FontIntact(memory)
    /\ (\E x \in 0..15 : Executed(<<15, x, 2, 9>>)) => GlyphSelected

\* C16 amended: bytes 0x000-0x04F are the font table when the first
\* instruction is fetched, and a tick changes them only when it executes
\* Fx33 or Fx55 with I below 0x50; Fx29 always leaves I = (Vx & 0xF) * 5,
\* and memory[I..I+4] are the glyph bytes of Vx & 0xF as long as no such
\* store has changed the table.
C16_Font ==
    /\ [](calls = 0 => FontIntact(memory))
    /\ [][TickStep =>
            LET w == last'.args[2]
            IN  /\ (\E a \in 0..(Len(FONT) - 1) : memory'[a] # memory[a]) =>
                      /\ w[1] = 15
                      /\ <<w[3], w[4]>> \in {<<3, 3>>, <<5, 5>>}
                      /\ i < Len(FONT)
                /\ (w[1] = 15 /\ <<w[3], w[4]>> = <<2, 9>>) =>
                      /\ i' = (v[w[2]] % 16) * 5
                      /\ FontIntact(memory) =>
                            \A k \in 0..4 :
                                memory'[i' + k] = FONT[5 * (v[w[2]] % 16) + k + 1]]_vars

\* Fx29 has selected the glyph of F for Vx = 0xFF after a store next to the
\* table that left it whole
C16_Witness ==
    /\ Executed(<<15, 0, 2, 9>>)
    /\ calls = FontTicks
    /\ last.pre.v[0] = 255
    /\ i = 75
    /\ <<memory[75], memory[76], memory[77], memory[78], memory[79]>>
          = <<240, 128, 240, 128, 128>>
    /\ memory[80] = 255

(***************************************************************************)
(* BCD programs: LD Vx, kk for every byte kk; LD I, addr; LD B, Vx.        *)
(***************************************************************************)
BcdTicks == 3

BcdPrograms ==
    {<<<<6, x, kk \div 16, kk % 16>>, Word(10, a), <<15, x, 3, 3>>>> :
        kk \in 0..255, x \in {0, 15}, a \in {768, 4093, 4094}}

InitBcd == \E prog \in BcdPrograms, checks \in BOOLEAN : Boot(prog, checks)

NextBcd == Tick(BcdTicks)

SpecBcd == InitBcd /\ [][NextBcd]_vars

\* C17: Fx33 fetched with I + 2 <= 0xFFF does not fail and writes
\* memory[I] = Vx div 100, memory[I+1] = (Vx div 10) mod 10 and
\* memory[I+2] = Vx mod 10, three digits in 0..9 with
\* 100*memory[I] + 10*memory[I+1] + memory[I+2] = Vx; it changes no other
\* byte of memory, no register and not I.
C17_Bcd ==
    [][\A x \in 0..15 :
          (FetchStep /\ last'.args = <<pc, <<15, x, 3, 3>>>> /\ i + 2 <= 4095) =>
              /\ ~panicked'
              /\ memory' = [memory EXCEPT ![i] = v[x] \div 100,
                                          ![i + 1] = (v[x] \div 10) % 10,
                                          ![i + 2] = v[x] % 10]
              /\ \A k \in 0..2 : memory'[i + k] \in 0..9
              /\ 100 * memory'[i] + 10 * memory'[i + 1] + memory'[i + 2] = v[x]
              /\ v' = v
              /\ i' = i]_vars

\* Fx33 has stored 2, 5, 4 for Vx = 0xFE in the last three bytes of memory
C17_Witness ==
    \E x \in 0..15 :
        /\ Executed(<<15, x, 3, 3>>)
        /\ v[x] = 254
        /\ i = 4093
        /\ <<memory[4093], memory[4094], memory[4095]>> = <<2, 5, 4>>

(***************************************************************************)
(* Store/load programs: RND V0; RND V1; LD I, addr; LD [I], Vx; RND V0;    *)
(* LD V1, 0x55; LD Vx, [I].                                                *)
(***************************************************************************)
StoreTicks == 7

StorePrograms ==
    {<<RndByte(0), RndByte(1), Word(10, a), <<15, x, 5, 5>>,
       RndByte(0), <<6, 1, 5, 5>>, <<15, x, 6, 5>>>> :
        x \in 0..1, a \in {768, 4094, 4095}}

InitStore == \E prog \in StorePrograms, checks \in BOOLEAN : Boot(prog, checks)

NextStore == Tick(StoreTicks)

SpecStore == InitStore /\ [][NextStore]_vars

\* C18: Fx55 leaves memory[I+k] = Vk for k in 0..x and Fx65 leaves
\* Vk = memory[I+k] for k in 0..x; both leave I, the registers above Vx and
\* memory outside I..I+x as they were; so an Fx65 with the x and I of the
\* last Fx55 (memory not written since) leaves V0..Vx at their values at
\* that Fx55, whatever the registers held before it.
C18_StoreLoad ==
    [][\A x \in 0..15 :
          /\ Executes(<<15, x, 5, 5>>) =>
                /\ memory' = [a \in Addrs |-> IF a >= i /\ a <= i + x
                                               THEN v[a - i] ELSE memory[a]]
                /\ v' = v
                /\ i' = i
          /\ Executes(<<15, x, 6, 5>>) =>
                /\ v' = [k \in 0..15 |-> IF k <= x THEN memory[i + k] ELSE v[k]]
                /\ memory' = memory
                /\ i' = i
                /\ (stored # <<>> /\ stored[1] = x /\ stored[2] = i) =>
                      \A k \in 0..x : v'[k] = stored[3][k]]_vars

\* F165 at the end of memory has brought V0 and V1, both overwritten since
\* F155, back to the two different values they had at F155, neither of
\* them 0
C18_Witness ==
    /\ Executed(<<15, 1, 6, 5>>)
    /\ i = 4094
    /\ stored # <<>>
    /\ last.pre.v[0] # v[0]
    /\ last.pre.v[1] # v[1]
    /\ v[0] # v[1]
    /\ v[0] # 0 /\ v[1] # 0
    /\ <<v[0], v[1]>> = <<stored[3][0], stored[3][1]>>

(***************************************************************************)
(* Jump programs: every slot of a short program holds a JP, a CALL or a    *)
(* JP V0 to an even or an odd address, a RET, LD V0, 1 or SE V0, V0.       *)
(***************************************************************************)
JumpSlots == 3
JumpTicks == 5

JumpWords ==
    {Word(1, 512), Word(1, 513), Word(2, 513), Word(2, 516), Word(11, 512),
     <<0, 0, 14, 14>>, <<6, 0, 0, 1>>, <<5, 0, 0, 0>>}

JumpPrograms == [1..JumpSlots -> JumpWords]

InitJump == \E prog \in JumpPrograms, checks \in BOOLEAN : Boot(prog, checks)

NextJump == Tick(JumpTicks)

SpecJump == InitJump /\ [][NextJump]_vars

\* C19 as stated: PC is even in every reachable state.
C19_PcEven == pc % 2 = 0

\* PC and the return addresses on the stack are even
Aligned(p, stk, n) == p % 2 = 0 /\ \A k \in 0..(n - 1) : k <= 15 => stk[k] % 2 = 0

\* C19 amended: PC is 0x200 when the first instruction is fetched; JP and
\* CALL leave PC = their address and JP V0 leaves PC = V0 + its address,
\* even or odd, RET leaves PC = the address on top of the stack, and every
\* other instruction adds 0, 2 or 4 to PC; so PC and the return addresses
\* stay even until a JP or CALL with an odd address or a JP V0 with an odd
\* V0 + address is executed, which leaves PC odd.
C19_PcParity ==
    /\ [](calls = 0 => pc = 512)
    /\ [][TickStep =>
            LET w == last'.args[2]
                target == IF w[1] = 11 THEN v[0] + addr(w[2], w[3], w[4])
                          ELSE addr(w[2], w[3], w[4])
            IN  /\ w[1] \in {1, 2, 11} => pc' = target
                /\ w = <<0, 0, 14, 14>> => pc' = stack[sp - 1]
                /\ (w[1] \notin {1, 2, 11} /\ w # <<0, 0, 14, 14>>) =>
                      pc' - pc \in {0, 2, 4}
                /\ (Aligned(pc, stack, sp) /\ ~Aligned(pc', stack', sp')) =>
                      (w[1] \in {1, 2, 11} /\ target % 2 = 1 /\ pc' % 2 = 1)]_vars

\* JP V0, 0x200 with V0 = 1, executed at an even address with even return
\* addresses on the stack, has left PC = 0x201
C19_Witness ==
    /\ Executed(<<11, 2, 0, 0>>)
    /\ last.pre.pc % 2 = 0
    /\ v[0] = 1
    /\ pc = 513
    /\ sp > 0
    /\ stack[0] % 2 = 0

(***************************************************************************)
(* The range of the stack pointer (checked under SpecCall).                *)
(***************************************************************************)
\* C20 as stated: SP is in 0..15 in every reachable state of a run.
C20_SpBelow16 == ~panicked => sp \in 0..15

\* C20 amended: SP is in 0..16 in every reachable state of a run.  CALL
\* adds 1 to SP and RET takes 1 from it; the CALL executed with SP = 15
\* fills stack[15] and leaves SP = 16, and a CALL fetched with SP = 16
\* ends the run.
C20_SpRange ==
    /\ [](~panicked => sp \in 0..16)
    /\ [][FetchStep =>
            LET w == last'.args[2]
            IN  /\ (w[1] = 2 /\ sp <= 15) =>
                      (~panicked' /\ sp' = sp + 1 /\ stack'[sp] = pc + 2)
                /\ (w[1] = 2 /\ sp = 16) => panicked'
                /\ (w = <<0, 0, 14, 14>> /\ ~panicked') => sp' = sp - 1
                /\ (w[1] # 2 /\ w # <<0, 0, 14, 14>>) => sp' = sp]_vars

\* the sixteenth nested CALL has left SP = 16, the run going on
C20_Witness ==
    /\ ~panicked
    /\ last.name = "tick"
    /\ last.args[2][1] = 2
    /\ last.pre.sp = 15
    /\ sp = 16
    /\ stack[15] = last.pre.pc + 2

(***************************************************************************)
(* Stack exhaustion (checked under SpecCall).                              *)
(***************************************************************************)
\* C21: a RET fetched with SP = 0 and a CALL fetched with SP = 16 end the
\* run with a panic, in a debug and in a release build, and no step
\* follows a panic; so in every state of a run SP is the number of CALLs
\* not yet returned from (never a wrapped value), stack[k] for k < SP is
\* the return address of the k-th of them (never overwritten), and a RET
\* that does not fail takes PC from such a slot.
C21_StackExhaustion ==
    /\ [](~panicked =>
            /\ sp = Len(pending)
            /\ sp <= 16
            /\ \A k \in 1..Len(pending) : stack[k - 1] = pending[k][1] + 2)
    /\ [][/\ ~panicked
          /\ FetchStep =>
                LET w == last'.args[2]
                IN  /\ (w = <<0, 0, 14, 14>> /\ sp = 0) => panicked'
                    /\ (w[1] = 2 /\ sp = 16) => (panicked' /\ stack' = stack)
                    /\ (w = <<0, 0, 14, 14>> /\ ~panicked') =>
                          (sp > 0 /\ pc' = pending[sp][1] + 2)]_vars

\* a release build has ended the run at a RET fetched with the stack empty
\* again after a CALL and its RET
C21_Witness ==
    /\ panicked
    /\ ~overflow_checks
    /\ last.name = "tick"
    /\ last.args[2] = <<0, 0, 14, 14>>
    /\ last.pre.sp = 0
    /\ calls > 2
    /\ pending = <<>>

(***************************************************************************)
(* ADD Vx, byte and ADD I, Vx (checked under SpecIndex).                   *)
(***************************************************************************)
IndexTicks == 517

\* RND Vx, 0xFF; ADD Vx, kk; then ADD I, Vx in a loop
IndexPrograms ==
    {<<<<12, x, 15, 15>>, <<7, x, kk \div 16, kk % 16>>, <<15, x, 1, 14>>,
       Word(1, 516)>> : x \in {0, 15}, kk \in {1, 255}}

InitIndex == \E prog \in IndexPrograms, checks \in BOOLEAN : Boot(prog, checks)

NextIndex == Tick(IndexTicks)

SpecIndex == InitIndex /\ [][NextIndex]_vars

\* C22: a tick that fetches 7xkk does not fail and changes no register but
\* Vx, which becomes (Vx + kk) mod 256; a tick that fetches Fx1E does not
\* fail, leaves every register as it was and leaves I = (I + Vx) mod 65536,
\* whatever I was.
C22_ArithmeticWraps ==
    [][/\ ~panicked
       /\ FetchStep =>
            LET w == last'.args[2]
                x == w[2]
            IN  /\ w[1] = 7 =>
                      /\ ~panicked'
                      /\ v' = [v EXCEPT ![x] = (v[x] + to_byte(w[3], w[4])) % 256]
                /\ <<w[1], w[3], w[4]>> = <<15, 1, 14>> =>
                      /\ ~panicked'
                      /\ v' = v
                      /\ i' = (i + v[x]) % 65536]_vars

(***************************************************************************)
(* The key wait under main's loop, which calls tick again and again:       *)
(* Poll is that call with no bound on their number, weakly fair.           *)
(***************************************************************************)
FairKeys == 2

Poll ==
    /\ ~panicked
    /\ \E rnd \in RandomBytes : \E s \in {tick(Self, rnd)} : Becomes(s)
    /\ timer_flag' \in BOOLEAN
    /\ last' = [name |-> "tick", args |-> <<pc, Fetched>>, ret |-> <<>>,
                pre |-> Snapshot]
    /\ prev' = IF last.name = "tick" /\ last.args = <<pc, Fetched>>
               THEN last ELSE NoOp
    /\ UNCHANGED <<overflow_checks, arrived, calls, pending, stored>>

\* LD Vx, K; LD VF, K; JP 0x200: one wait after another, for ever
FairProgram == <<<<15, 0, 0, 10>>, <<15, 15, 0, 10>>, Word(1, 512)>>

\* the key wait has no arithmetic that the build profile changes
InitWaitFair == Boot(FairProgram, TRUE)

NextWaitFair ==
    \/ Poll
    \/ \E key \in KeyEventSamples : KeyArrives(FairKeys, key)

SpecWaitFair == InitWaitFair /\ [][NextWaitFair]_vars /\ WF_vars(Poll)

\* the addresses of the Fx0A instructions of FairProgram
WaitAddrs == {512, 514}

\* the key codes of the hex keys among KeyEventSamples
WaitKeys == {1, 10}

\* the instruction at pc is an Fx0A
AtWait ==
    /\ ~panicked
    /\ Fetched # <<>>
    /\ <<Fetched[1], Fetched[3], Fetched[4]>> = <<15, 0, 10>>

\* the interpreter is at an Fx0A at address p and the first hex key the
\* raw stream has yet to yield is k
Waiting(p, k) ==
    /\ AtWait
    /\ pc = p
    /\ HexCodes(stdin) # <<>>
    /\ HexCodes(stdin)[1] = k

\* the last tick executed the Fx0A at p and ended the wait with Vx = k
WaitEnded(p, k) ==
    /\ ~panicked
    /\ last.name = "tick"
    /\ last.args[1] = p
    /\ <<last.args[2][1], last.args[2][3], last.args[2][4]>> = <<15, 0, 10>>
    /\ pc = p + 2
    /\ v[last.args[2][2]] = k

\* C23: with tick called again and again, an Fx0A at p whose raw stream
\* holds a hex key, k the first of them, is followed by a state in which
\* the wait has ended with PC = p + 2 and Vx = k; a tick at an Fx0A takes
\* at most one event off the raw stream, and when that event is not a hex
\* key the event is gone, with PC, the registers and the queue as before.
C23_KeyWaitLiveness ==
    /\ \A p \in WaitAddrs : \A k \in WaitKeys :
            Waiting(p, k) ~> WaitEnded(p, k)
    /\ [][(AtWait /\ arrived' = arrived) =>
                /\ Len(Consumed) <= 1
                /\ (Len(Consumed) = 1 /\ HexCodes(Consumed) = <<>>) =>
                      /\ stdin' = Tail(stdin)
                      /\ pc' = pc
                      /\ v' = v
                      /\ unprocessed' = unprocessed]_vars

\* a wait ended with key 10 after a retry that took an event that is not
\* a hex key off the raw stream
C23_Witness ==
    /\ WaitEnded(last.pre.pc, 10)
    /\ prev.name = "tick"
    /\ prev.pre.pc = last.pre.pc
    /\ prev.pre.stdin # <<>>
    /\ HexCodes(<<Head(prev.pre.stdin)>>) = <<>>
    /\ last.pre.stdin = Tail(prev.pre.stdin)

(***************************************************************************)
(* Fx0A and the unprocessed queue (checked under SpecExit, whose programs  *)
(* run SKP or SKNP before LD V1, K).                                       *)
(***************************************************************************)
\* C24: a tick that fetches Fx0A leaves the unprocessed queue as it was,
\* whatever the queue holds: with no event in stdin it yields no key and
\* PC stays at the Fx0A, and when it ends the wait Vx is the key code of
\* the event it took off the head of stdin.
C24_WaitIgnoresQueue ==
    [][(AtWait /\ FetchStep) =>
          /\ ~panicked'
          /\ unprocessed' = unprocessed
          /\ stdin = <<>> => (pc' = pc /\ v' = v)
          /\ pc' # pc =>
                /\ stdin # <<>>
                /\ stdin' = Tail(stdin)
                /\ <<v'[Fetched[2]]>> = HexCodes(<<Head(stdin)>>)]_vars

\* SKP queued key 10 as unmatched; the Fx0A after it found stdin empty and
\* yielded nothing, and executed again it took key 1 from stdin, with the
\* queue still holding 10
C24_Witness ==
    /\ Executed(<<15, 1, 0, 10>>)
    /\ unprocessed = <<10>>
    /\ last.pre.unprocessed = <<10>>
    /\ pc = last.pre.pc + 2
    /\ v[1] = 1
    /\ prev.name = "tick"
    /\ prev.pre.pc = last.pre.pc
    /\ prev.pre.stdin = <<>>
    /\ prev.pre.unprocessed = <<10>>

====
